---------------------------- MODULE Spec2Model ----------------------------
(***************************************************************************)
(* Model of fgrzl/lexkey: the order-preserving byte encoding of typed      *)
(* values (lexkey.go), the composite key (primary_key.go) and the range    *)
(* boundaries (range_key.go).                                              *)
(*                                                                         *)
(* Representation of the Go values:                                        *)
(*   - a byte is a number in 0..255, a []byte a sequence of bytes;         *)
(*   - an int16 and an int32 are integers of their range;                  *)
(*   - an int64 is the mixed-radix tuple <<h, w2, w1, w0>> of its value    *)
(*     h*2^48 + w2*2^32 + w1*2^16 + w0, h in -32768..32767 and the w's in  *)
(*     0..65535 (the value is unique for the tuple, and the numeric order  *)
(*     is the lexicographic order of the tuples);                          *)
(*   - an unsigned 64/32-bit pattern is a tuple of 16-bit limbs, most      *)
(*     significant first;                                                  *)
(*   - a float is its IEEE-754 bit pattern (math.Float64bits), as limbs.   *)
(***************************************************************************)
EXTENDS Integers, Sequences, FiniteSets

VARIABLES op, a, b, ra, rb, pc

vars == <<op, a, b, ra, rb, pc>>

\* ------------------------------------------------------------------ bounds

\* How far the sampled integers and mantissas reach around each boundary value.
Spread == 1

\* The longest sampled text, in bytes.
MaxTextLen == 2

\* The most parts of a sampled key.
MaxParts == 3

\* ------------------------------------------------------------ bit helpers

Pow16 == 65536

SignBit16 == 32768

Ones16 == 65535

RECURSIVE Xor(_, _)
\* Bitwise exclusive or of two naturals (Go's ^ on unsigned operands).
Xor(m, n) ==
    IF m = 0 THEN n
    ELSE IF n = 0 THEN m
    ELSE (((m % 2) + (n % 2)) % 2) + (2 * Xor(m \div 2, n \div 2))

\* Go's unary ^ on one 16-bit limb.
Not16(w) == Xor(w, Ones16)

\* binary.BigEndian.PutUint16
PutUint16(w) == <<w \div 256, w % 256>>

\* binary.BigEndian.PutUint32 of the limbs <<hi, lo>>
PutUint32(u) == PutUint16(u[1]) \o PutUint16(u[2])

\* binary.BigEndian.PutUint64 of the limbs <<w3, w2, w1, w0>>
PutUint64(u) == PutUint16(u[1]) \o PutUint16(u[2]) \o PutUint16(u[3]) \o PutUint16(u[4])

\* uint16(v) of an int16: the two's-complement pattern.
Uint16OfInt16(v) == v % Pow16

\* uint32(v) of an int32, as limbs.
Uint32OfInt32(v) == <<(v \div Pow16) % Pow16, v % Pow16>>

\* uint64(v) of an int64, as limbs.
Uint64OfInt64(v) == <<v[1] % Pow16, v[2], v[3], v[4]>>

\* int64(v) of an int32 (sign extension).
Int64OfInt32(v) ==
    <<IF v < 0 THEN -1 ELSE 0, IF v < 0 THEN Ones16 ELSE 0, (v \div Pow16) % Pow16, v % Pow16>>

\* ------------------------------------------------------- byte-wise order

RECURSIVE Compare(_, _)
\* bytes.Compare / Go's string comparison: -1, 0 or 1, a proper prefix first.
Compare(s, t) ==
    IF Len(s) = 0 THEN (IF Len(t) = 0 THEN 0 ELSE -1)
    ELSE IF Len(t) = 0 THEN 1
    ELSE IF Head(s) < Head(t) THEN -1
    ELSE IF Head(s) > Head(t) THEN 1
    ELSE Compare(Tail(s), Tail(t))

BytesLess(s, t) == Compare(s, t) = -1

\* Numeric order of two tuples of integers of the same length (int64 values,
\* unsigned limb tuples).
LimbsLess(u, v) == Compare(u, v) = -1

\* ------------------------------------------------------- signed integers

encodeInt64_NoFlip(v) == PutUint64(Uint64OfInt64(v))

encodeInt64(v) ==
    LET u == Uint64OfInt64(v)
    IN  PutUint64(<<Xor(u[1], SignBit16), u[2], u[3], u[4]>>)

encodeInt32(v) ==
    LET u == Uint32OfInt32(v)
    IN  PutUint32(<<Xor(u[1], SignBit16), u[2]>>)

encodeInt16(v) == PutUint16(Xor(Uint16OfInt16(v), SignBit16))

\* ----------------------------------------------------- unsigned integers

encodeUint64(v) == PutUint64(v)

encodeUint32(v) == PutUint32(v)

encodeUint16(v) == PutUint16(v)

\* ------------------------------------------------------------------ floats

\* 0x7FF8000000000001 and 0x7FC00001 as limbs.
CanonicalNaN64 == <<32760, 0, 0, 1>>

CanonicalNaN32 == <<32704, 1>>

\* The sign, the biased exponent and the mantissa of a float64 / float32 pattern.
Float64Value(f) ==
    [neg |-> f[1] \div SignBit16 = 1,
     exp |-> (f[1] \div 16) % 2048,
     mant |-> <<f[1] % 16, f[2], f[3], f[4]>>,
     nan |-> (f[1] \div 16) % 2048 = 2047 /\ <<f[1] % 16, f[2], f[3], f[4]>> # <<0, 0, 0, 0>>]

Float32Value(f) ==
    [neg |-> f[1] \div SignBit16 = 1,
     exp |-> (f[1] \div 128) % 256,
     mant |-> <<f[1] % 128, f[2]>>,
     nan |-> (f[1] \div 128) % 256 = 255 /\ <<f[1] % 128, f[2]>> # <<0, 0>>]

\* math.IsNaN
IsNaN(x) == x.nan

FloatIsZero(x) == x.exp = 0 /\ \A i \in DOMAIN x.mant : x.mant[i] = 0

\* The magnitude of a non-NaN value: (exponent, mantissa), compared lexicographically.
FloatMag(x) == <<x.exp>> \o x.mant

\* IEEE-754 x < y: false when either is NaN, and -0 = +0.
FloatLess(x, y) ==
    /\ ~IsNaN(x) /\ ~IsNaN(y)
    /\ ~(FloatIsZero(x) /\ FloatIsZero(y))
    /\ IF x.neg /\ ~y.neg THEN TRUE
       ELSE IF ~x.neg /\ y.neg THEN FALSE
       ELSE IF x.neg THEN LimbsLess(FloatMag(y), FloatMag(x))
       ELSE LimbsLess(FloatMag(x), FloatMag(y))

\* Go's v < 0 on a float.
FloatLtZero(x) == ~IsNaN(x) /\ x.neg /\ ~FloatIsZero(x)

encodeFloat64(f) ==
    IF IsNaN(Float64Value(f)) THEN PutUint64(CanonicalNaN64)
    ELSE IF FloatLtZero(Float64Value(f))
         THEN PutUint64(<<Not16(f[1]), Not16(f[2]), Not16(f[3]), Not16(f[4])>>)
         ELSE PutUint64(<<Xor(f[1], SignBit16), f[2], f[3], f[4]>>)

encodeFloat32(f) ==
    IF IsNaN(Float32Value(f)) THEN PutUint32(CanonicalNaN32)
    ELSE IF FloatLtZero(Float32Value(f))
         THEN PutUint32(<<Not16(f[1]), Not16(f[2])>>)
         ELSE PutUint32(<<Xor(f[1], SignBit16), f[2]>>)

\* ------------------------------------------------------------ the LexKey

EndMarker == 255

\* A separator that sorts after every byte instead of before.
Seperator_AsEndMarker == EndMarker

Seperator == 0

\* A LexKey ([]byte): nil, or a possibly empty sequence of bytes.
Nil == [nil |-> TRUE, bytes |-> <<>>]

MakeKey(s) == [nil |-> FALSE, bytes |-> s]

\* Go's append(key, s...): a nil slice with nothing appended stays nil.
AppendBytes(key, s) == IF Len(s) = 0 THEN key ELSE MakeKey(key.bytes \o s)

NoError == "none"

ErrEmptyInput == "empty keys are not allowed"

ErrUnsupportedType == "unsupported key type"

\* One part of a key: the dynamic type of the value and the value, a tuple of
\* numbers (the bytes of a text, the limbs of a 64-bit value, <<n>> for a narrow
\* integer, <<>> where the kind has one value), or the flag of a bool.
Part(k, v) == [kind |-> k, v |-> v, flag |-> FALSE]

BoolPart(f) == [kind |-> "bool", v |-> <<>>, flag |-> f]

encodeToBytes(part) ==
    CASE part.kind = "string" -> [bytes |-> part.v, err |-> NoError]
      [] part.kind = "uuid" -> [bytes |-> part.v, err |-> NoError]
      [] part.kind = "bytes" -> [bytes |-> part.v, err |-> NoError]
      [] part.kind = "int" -> [bytes |-> encodeInt64(part.v), err |-> NoError]
      [] part.kind = "int64" -> [bytes |-> encodeInt64(part.v), err |-> NoError]
      [] part.kind = "int32" -> [bytes |-> encodeInt32(part.v[1]), err |-> NoError]
      [] part.kind = "int16" -> [bytes |-> encodeInt16(part.v[1]), err |-> NoError]
      [] part.kind = "uint64" -> [bytes |-> encodeUint64(part.v), err |-> NoError]
      [] part.kind = "uint32" -> [bytes |-> encodeUint32(part.v), err |-> NoError]
      [] part.kind = "uint16" -> [bytes |-> encodeUint16(part.v[1]), err |-> NoError]
      [] part.kind = "uint8" -> [bytes |-> <<part.v[1]>>, err |-> NoError]
      [] part.kind = "float64" -> [bytes |-> encodeFloat64(part.v), err |-> NoError]
      [] part.kind = "float32" -> [bytes |-> encodeFloat32(part.v), err |-> NoError]
      [] part.kind = "bool" -> [bytes |-> IF part.flag THEN <<1>> ELSE <<0>>, err |-> NoError]
      [] part.kind = "time" -> [bytes |-> encodeInt64(part.v), err |-> NoError]
      [] part.kind = "duration" -> [bytes |-> encodeInt64(part.v), err |-> NoError]
      [] part.kind = "nil" -> [bytes |-> <<0>>, err |-> NoError]
      [] part.kind = "struct{}" -> [bytes |-> <<255>>, err |-> NoError]
      [] OTHER -> [bytes |-> <<>>, err |-> ErrUnsupportedType]

\* The outcome of a call: the key and the error value handed to the caller, and
\* whether the call panicked instead of returning.
Outcome(key, err, panicked) == [key |-> key, err |-> err, panic |-> panicked]

\* Whether a separator follows part i of n (1-based; the code's i < len(parts)-1).
NeedsSeparator_AfterEvery(i, n) == i <= n

NeedsSeparator(i, n) == i < n

\* What NewLexKey returns when a part does not encode.
ErrorReturn_Partial(result, err) == Outcome(result, err, FALSE)

ErrorReturn(result, err) == Outcome(Nil, err, FALSE)

RECURSIVE NewLexKeyLoop(_, _, _)
\* The loop of NewLexKey from part i on, result being what is appended so far.
NewLexKeyLoop(parts, i, result) ==
    IF i > Len(parts) THEN Outcome(result, NoError, FALSE)
    ELSE LET e == encodeToBytes(parts[i])
             r1 == AppendBytes(result, e.bytes)
             r2 == IF NeedsSeparator(i, Len(parts)) THEN AppendBytes(r1, <<Seperator>>) ELSE r1
         IN  IF e.err # NoError THEN ErrorReturn(result, e.err)
             ELSE NewLexKeyLoop(parts, i + 1, r2)

NewLexKey(parts) ==
    IF Len(parts) = 0 THEN Outcome(Nil, ErrEmptyInput, FALSE)
    ELSE NewLexKeyLoop(parts, 1, Nil)

\* Encode has no error result: it panics when NewLexKey fails.
Encode(parts) ==
    LET r == NewLexKey(parts)
    IN  IF r.err # NoError THEN Outcome(Nil, NoError, TRUE) ELSE Outcome(r.key, NoError, FALSE)

EncodeFirst(parts) ==
    LET prefix == Encode(parts)
    IN  IF prefix.panic THEN prefix
        ELSE Outcome(MakeKey(prefix.key.bytes \o <<Seperator>>), NoError, FALSE)

\* An EncodeLast that appends the separator, as EncodeFirst does.
EncodeLast_AppendsSeperator(parts) ==
    LET prefix == Encode(parts)
    IN  IF prefix.panic THEN prefix
        ELSE Outcome(MakeKey(prefix.key.bytes \o <<Seperator>>), NoError, FALSE)

EncodeLast(parts) ==
    LET prefix == Encode(parts)
    IN  IF prefix.panic THEN prefix
        ELSE Outcome(MakeKey(prefix.key.bytes \o <<EndMarker>>), NoError, FALSE)

\* ------------------------------------------------------- sampled inputs

MinInt16 == 0 - SignBit16

MaxInt16 == SignBit16 - 1

MinInt32 == (0 - SignBit16) * Pow16

MaxInt32 == ((SignBit16 - 1) * Pow16) + Ones16

MinInt64 == <<0 - SignBit16, 0, 0, 0>>

MaxInt64 == <<SignBit16 - 1, Ones16, Ones16, Ones16>>

\* The integers within Spread of n.
Near(n) == (n - Spread)..(n + Spread)

Int16Samples ==
    {MinInt16 + k : k \in 0..Spread} \cup {MaxInt16 - k : k \in 0..Spread}
        \cup Near(0) \cup Near(-1) \cup Near(256) \cup Near(-256) \cup {123, -123}

Int32Samples ==
    {MinInt32 + k : k \in 0..Spread} \cup {MaxInt32 - k : k \in 0..Spread}
        \cup Near(0) \cup Near(-1) \cup Near(Pow16) \cup Near(0 - Pow16) \cup {100000, -100000}

Int64Samples ==
    {<<0 - SignBit16, 0, 0, k>> : k \in 0..Spread}
        \cup {<<SignBit16 - 1, Ones16, Ones16, Ones16 - k>> : k \in 0..Spread}
        \cup {Int64OfInt32(v) : v \in Near(0) \cup Near(-1) \cup Near(Pow16) \cup {42, 41, 123, -123}}
        \cup {<<0, 1, 0, 0>>, <<0, 0, Ones16, Ones16>>, <<-1, Ones16 - 1, Ones16, Ones16>>,
              <<0, 232, 54437, 4096>>, <<-1, 65303, 11098, 61440>>}

\* The low limbs of the sampled mantissas.
LowLimb == (0..Spread) \cup ((Ones16 - Spread)..Ones16)

Float64Samples ==
    {<<(sg * SignBit16) + (e * 16) + m, w, w, l>> :
        sg \in {0, 1}, e \in {0, 1, 1023, 2046, 2047}, m \in {0, 8, 15},
        w \in {0}, l \in LowLimb}
    \cup {<<(sg * SignBit16) + (e * 16) + 15, Ones16, Ones16, l>> :
        sg \in {0, 1}, e \in {0, 2046, 2047}, l \in LowLimb}

Float32Samples ==
    {<<(sg * SignBit16) + (e * 128) + m, l>> :
        sg \in {0, 1}, e \in {0, 1, 127, 254, 255}, m \in {0, 64, 127}, l \in LowLimb}

\* --------------------------------------------------- the scalar encoders

NoResult == <<>>

InitScalar ==
    /\ pc = "call"
    /\ ra = NoResult
    /\ rb = NoResult
    /\ \/ op = "encodeInt16" /\ a \in Int16Samples /\ b \in Int16Samples
       \/ op = "encodeInt32" /\ a \in Int32Samples /\ b \in Int32Samples
       \/ op = "encodeInt64" /\ a \in Int64Samples /\ b \in Int64Samples
       \/ op = "encodeFloat64" /\ a \in Float64Samples /\ b \in Float64Samples
       \/ op = "encodeFloat32" /\ a \in Float32Samples /\ b \in Float32Samples

CallEncodeInt16 ==
    /\ pc = "call" /\ op = "encodeInt16"
    /\ ra' = encodeInt16(a) /\ rb' = encodeInt16(b)
    /\ pc' = "done"
    /\ UNCHANGED <<op, a, b>>

CallEncodeInt32 ==
    /\ pc = "call" /\ op = "encodeInt32"
    /\ ra' = encodeInt32(a) /\ rb' = encodeInt32(b)
    /\ pc' = "done"
    /\ UNCHANGED <<op, a, b>>

CallEncodeInt64 ==
    /\ pc = "call" /\ op = "encodeInt64"
    /\ ra' = encodeInt64(a) /\ rb' = encodeInt64(b)
    /\ pc' = "done"
    /\ UNCHANGED <<op, a, b>>

CallEncodeFloat64 ==
    /\ pc = "call" /\ op = "encodeFloat64"
    /\ ra' = encodeFloat64(a) /\ rb' = encodeFloat64(b)
    /\ pc' = "done"
    /\ UNCHANGED <<op, a, b>>

CallEncodeFloat32 ==
    /\ pc = "call" /\ op = "encodeFloat32"
    /\ ra' = encodeFloat32(a) /\ rb' = encodeFloat32(b)
    /\ pc' = "done"
    /\ UNCHANGED <<op, a, b>>

NextScalar ==
    \/ CallEncodeInt16
    \/ CallEncodeInt32
    \/ CallEncodeInt64
    \/ CallEncodeFloat64
    \/ CallEncodeFloat32

SpecScalar == InitScalar /\ [][NextScalar]_vars

\* ------------------------------------------------------ the key builder

\* The bytes of the sampled texts: 0x00, 'o', 'p'.
TextAlphabet == {0, 111, 112}

Texts == UNION {[1..n -> TextAlphabet] : n \in 0..MaxTextLen}

UuidSample == <<85, 14, 132, 0, 226, 155, 65, 212, 167, 22, 68, 102, 85, 68, 0, 0>>

\* Kinds the type switch of encodeToBytes has no case for.
OtherKindParts == {Part("chan", <<>>), Part("int8", <<7>>)}

AllKindParts ==
    {Part("string", <<>>), Part("string", <<104, 101, 108, 108, 111>>),
     Part("uuid", UuidSample),
     Part("bytes", <<>>), Part("bytes", <<100, 97, 116, 97>>),
     Part("int", Int64OfInt32(42)), Part("int64", Int64OfInt32(-123)),
     Part("int32", <<123>>), Part("int16", <<-123>>),
     Part("uint64", <<0, 0, 0, 123>>), Part("uint32", <<0, 123>>),
     Part("uint16", <<123>>), Part("uint8", <<123>>),
     Part("float64", <<16393, 7864, 20971, 34079>>), Part("float32", <<32705, 7>>),
     BoolPart(TRUE), BoolPart(FALSE),
     Part("time", <<6039, 40190, 13866, 0>>), Part("duration", Int64OfInt32(42)),
     Part("nil", <<>>), Part("struct{}", <<>>)}
    \cup OtherKindParts

CoreParts ==
    {Part("string", <<111>>), Part("string", <<>>), Part("int", Int64OfInt32(42)),
     BoolPart(TRUE), Part("nil", <<>>), Part("struct{}", <<>>), Part("chan", <<>>)}

GenericLists ==
    {<<>>}
        \cup {<<p>> : p \in AllKindParts}
        \cup {<<p, q>> : p \in AllKindParts, q \in AllKindParts}
        \cup UNION {[1..n -> CoreParts] : n \in 1..MaxParts}

\* The (text, int64, bool) tuples, as the parts NewLexKey is called with.
Tuple(t, n, f) == <<Part("string", t), Part("int64", n), BoolPart(f)>>

TupleLists ==
    {Tuple(t, Int64OfInt32(n), f) : t \in Texts, n \in {41, 42, -1}, f \in BOOLEAN}

OneTextLists == {<<Part("string", t)>> : t \in Texts}

\* A prefix P of one part or more, and what follows it in a longer key P, Q.
PrefixLists == UNION {[1..n -> CoreParts] : n \in 1..(MaxParts - 1)}

SuffixLists == {<<p>> : p \in CoreParts} \cup {<<p, q>> : p \in CoreParts, q \in CoreParts}

InitKey ==
    /\ pc = "call"
    /\ ra = NoResult
    /\ rb = NoResult
    /\ \/ /\ op \in {"NewLexKey", "Encode", "EncodeFirst", "EncodeLast"}
          /\ a \in GenericLists
          /\ b = <<>>
       \/ /\ op = "NewLexKey"
          /\ a \in TupleLists
          /\ b \in TupleLists \cup OneTextLists
       \/ /\ op = "Encode"
          /\ a \in {<<Part("int32", <<v>>)>> : v \in Int32Samples}
          /\ b \in {<<Part("int64", v)>> : v \in Int64Samples}
       \/ /\ op \in {"EncodeFirst", "EncodeLast"}
          /\ a \in PrefixLists
          /\ b \in {a \o q : q \in SuffixLists}

CallNewLexKey ==
    /\ pc = "call" /\ op = "NewLexKey"
    /\ ra' = NewLexKey(a) /\ rb' = NewLexKey(b)
    /\ pc' = "done"
    /\ UNCHANGED <<op, a, b>>

CallEncode ==
    /\ pc = "call" /\ op = "Encode"
    /\ ra' = Encode(a) /\ rb' = Encode(b)
    /\ pc' = "done"
    /\ UNCHANGED <<op, a, b>>

CallEncodeFirst ==
    /\ pc = "call" /\ op = "EncodeFirst"
    /\ ra' = EncodeFirst(a) /\ rb' = EncodeFirst(b)
    /\ pc' = "done"
    /\ UNCHANGED <<op, a, b>>

CallEncodeLast ==
    /\ pc = "call" /\ op = "EncodeLast"
    /\ ra' = EncodeLast(a) /\ rb' = EncodeLast(b)
    /\ pc' = "done"
    /\ UNCHANGED <<op, a, b>>

NextKey ==
    \/ CallNewLexKey
    \/ CallEncode
    \/ CallEncodeFirst
    \/ CallEncodeLast

SpecKey == InitKey /\ [][NextKey]_vars

\* ----------------------------------------------------------- claims C1-C3

AllBytes(s, v) == \A i \in DOMAIN s : s[i] = v

\* C1: for each signed width 16, 32 and 64 and all values a, b of that width,
\* a < b numerically exactly when the encoding of a is byte-wise strictly smaller
\* than the encoding of b; the most negative value encodes to all-zero bytes and
\* the most positive value to all-0xFF bytes.
C1_SignedOrderPreserved ==
    pc = "done" =>
        /\ op = "encodeInt16" =>
            /\ (a < b) <=> BytesLess(ra, rb)
            /\ Len(ra) = 2
            /\ (a = MinInt16) <=> AllBytes(ra, 0)
            /\ (a = MaxInt16) <=> AllBytes(ra, 255)
        /\ op = "encodeInt32" =>
            /\ (a < b) <=> BytesLess(ra, rb)
            /\ Len(ra) = 4
            /\ (a = MinInt32) <=> AllBytes(ra, 0)
            /\ (a = MaxInt32) <=> AllBytes(ra, 255)
        /\ op = "encodeInt64" =>
            /\ LimbsLess(a, b) <=> BytesLess(ra, rb)
            /\ Len(ra) = 8
            /\ (a = MinInt64) <=> AllBytes(ra, 0)
            /\ (a = MaxInt64) <=> AllBytes(ra, 255)

\* A negative int64 and a non-negative one, encoded in their numeric order, with
\* the extreme values among them.
C1_Witness ==
    /\ pc = "done" /\ op = "encodeInt64"
    /\ a = MinInt64 /\ b = MaxInt64
    /\ AllBytes(ra, 0) /\ AllBytes(rb, 255)
    /\ BytesLess(ra, rb)

\* C2: for all non-NaN floats a, b of the same width (with +0, -0, the infinities
\* and the subnormals), a < b in IEEE-754 numeric order exactly when the encoding
\* of a is byte-wise strictly smaller than the encoding of b.
C2_FloatOrderPreserved ==
    pc = "done" =>
        /\ op = "encodeFloat64" /\ ~IsNaN(Float64Value(a)) /\ ~IsNaN(Float64Value(b)) =>
            (FloatLess(Float64Value(a), Float64Value(b)) <=> BytesLess(ra, rb))
        /\ op = "encodeFloat32" /\ ~IsNaN(Float32Value(a)) /\ ~IsNaN(Float32Value(b)) =>
            (FloatLess(Float32Value(a), Float32Value(b)) <=> BytesLess(ra, rb))

\* C3: every NaN of a width encodes to the one canonical pattern of that width,
\* and that encoding is byte-wise strictly greater than the encoding of every
\* non-NaN value of the width.
C3_NaNCanonicalAndGreatest ==
    pc = "done" =>
        /\ op = "encodeFloat64" /\ IsNaN(Float64Value(a)) =>
            /\ ra = <<127, 248, 0, 0, 0, 0, 0, 1>>
            /\ ~IsNaN(Float64Value(b)) => BytesLess(rb, ra)
        /\ op = "encodeFloat32" /\ IsNaN(Float32Value(a)) =>
            /\ ra = <<127, 192, 0, 1>>
            /\ ~IsNaN(Float32Value(b)) => BytesLess(rb, ra)

\* ---------------------------------------------------------- claims C4-C8

\* C4: mixed-width signed integers sort consistently: for every int32 a and every
\* int64 b, a < b numerically implies Encode(a) byte-wise strictly below
\* Encode(b), and a > b implies Encode(a) strictly above Encode(b).
C4_MixedWidthOrder ==
    (/\ pc = "done" /\ op = "Encode"
     /\ Len(a) = 1 /\ Len(b) = 1
     /\ a[1].kind = "int32" /\ b[1].kind = "int64") =>
        /\ ~ra.panic /\ ~rb.panic
        /\ LimbsLess(Int64OfInt32(a[1].v[1]), b[1].v) => BytesLess(ra.key.bytes, rb.key.bytes)
        /\ LimbsLess(b[1].v, Int64OfInt32(a[1].v[1])) => BytesLess(rb.key.bytes, ra.key.bytes)

IsTuple(parts) ==
    /\ Len(parts) = 3
    /\ parts[1].kind = "string" /\ parts[2].kind = "int64" /\ parts[3].kind = "bool"

IsOneText(parts) == Len(parts) = 1 /\ parts[1].kind = "string"

NoZeroByte(t) == \A i \in DOMAIN t : t[i] # 0

IsPrefix(s, t) == Len(s) <= Len(t) /\ SubSeq(t, 1, Len(s)) = s

\* The lexicographic order of two (text, int64, bool) tuples: -1, 0 or 1.
TupleCompare(x, y) ==
    IF Compare(x[1].v, y[1].v) # 0 THEN Compare(x[1].v, y[1].v)
    ELSE IF Compare(x[2].v, y[2].v) # 0 THEN Compare(x[2].v, y[2].v)
    ELSE IF x[3].flag = y[3].flag THEN 0
    ELSE IF y[3].flag THEN -1 ELSE 1

\* C5: for two (text, int64, bool) tuples whose texts hold no 0x00 byte, the
\* byte-wise order of the two NewLexKey outputs is the lexicographic order of the
\* tuples; and a one-part key whose text is byte-wise greater than, and no
\* extension of, the tuple's text sorts after the tuple's key.
C5_TupleOrder ==
    (pc = "done" /\ op = "NewLexKey" /\ IsTuple(a) /\ NoZeroByte(a[1].v)) =>
        /\ ra.err = NoError
        /\ (IsTuple(b) /\ NoZeroByte(b[1].v)) =>
              Compare(ra.key.bytes, rb.key.bytes) = TupleCompare(a, b)
        /\ (IsOneText(b) /\ BytesLess(a[1].v, b[1].v) /\ ~IsPrefix(a[1].v, b[1].v)) =>
              BytesLess(ra.key.bytes, rb.key.bytes)

\* ("o", 41, true) and ("o", 42, true), encoded in that order.
C5_Witness ==
    /\ pc = "done" /\ op = "NewLexKey"
    /\ a = Tuple(<<111>>, Int64OfInt32(41), TRUE)
    /\ b = Tuple(<<111>>, Int64OfInt32(42), TRUE)
    /\ BytesLess(ra.key.bytes, rb.key.bytes)

\* The kinds the specification lists as supported.
SupportedKinds ==
    {"string", "bytes", "uuid", "bool", "int16", "int32", "int64", "int",
     "uint8", "uint16", "uint32", "uint64", "float32", "float64",
     "time", "duration", "nil"}

AllSupported(parts) == \A i \in DOMAIN parts : parts[i].kind \in SupportedKinds

RECURSIVE SumLen(_, _)
\* The total length of the first i sequences of encs.
SumLen(encs, i) == IF i = 0 THEN 0 ELSE Len(encs[i]) + SumLen(encs, i - 1)

\* C6: for n >= 1 supported parts NewLexKey succeeds and returns exactly
\* enc(p1) ++ [0x00] ++ ... ++ [0x00] ++ enc(pn): each part's encoding at the
\* offset its predecessors and their separators give, one separator byte after
\* each part but the last, and a length of the encodings' lengths plus n-1.
C6_KeyLayout ==
    (pc = "done" /\ op = "NewLexKey" /\ Len(a) >= 1 /\ AllSupported(a)) =>
        LET n == Len(a)
            encs == [i \in 1..n |-> encodeToBytes(a[i]).bytes]
            key == ra.key.bytes
            off(i) == SumLen(encs, i - 1) + (i - 1)
        IN  /\ ra.err = NoError
            /\ Len(key) = SumLen(encs, n) + (n - 1)
            /\ \A i \in 1..n :
                /\ SubSeq(key, off(i) + 1, off(i) + Len(encs[i])) = encs[i]
                /\ i < n => key[off(i) + Len(encs[i]) + 1] = 0

\* The key of ("o", 42, true): three parts, two separators.
C6_Witness ==
    /\ pc = "done" /\ op = "NewLexKey"
    /\ a = <<Part("string", <<111>>), Part("int", Int64OfInt32(42)), BoolPart(TRUE)>>
    /\ ra.key = MakeKey(<<111, 0, 128, 0, 0, 0, 0, 0, 0, 42, 0, 1>>)

\* C7: a part whose kind is not in the supported set makes NewLexKey fail with
\* an Unsupported-Type error at whatever position it occurs; no such kind, the
\* empty struct included, gets a fallback encoding.
C7_UnsupportedKindFails ==
    (/\ pc = "done" /\ op = "NewLexKey"
     /\ \E i \in DOMAIN a : a[i].kind \notin SupportedKinds) =>
        /\ ra.err = ErrUnsupportedType
        /\ ra.key = Nil

\* C8: NewLexKey with zero parts fails with Empty-Input and a nil key, and
\* whenever NewLexKey returns an error the key is nil, with no partial bytes.
C8_NilKeyWithError ==
    (pc = "done" /\ op = "NewLexKey") =>
        /\ Len(a) = 0 => (ra.err = ErrEmptyInput /\ ra.key = Nil)
        /\ Len(b) = 0 => (rb.err = ErrEmptyInput /\ rb.key = Nil)
        /\ ra.err # NoError => ra.key = Nil
        /\ rb.err # NoError => rb.key = Nil
        /\ (\E i \in DOMAIN a : encodeToBytes(a[i]).err # NoError) => ra.err # NoError

\* An unsupported part after two encoded ones: an error and a nil key.
C8_Witness ==
    /\ pc = "done" /\ op = "NewLexKey"
    /\ Len(a) = 3
    /\ a[1] = Part("string", <<111>>) /\ a[2].kind = "int" /\ a[3].kind = "chan"
    /\ ra.err = ErrUnsupportedType /\ ra.key = Nil
    /\ Len(b) = 0 /\ rb.err = ErrEmptyInput /\ rb.key = Nil

\* C10: every error of the encoding API reaches the caller as an error value and
\* never aborts the process: Encode, EncodeFirst and EncodeLast with zero parts
\* or with an unsupported part return an error rather than panic.
C10_ErrorsReturnedNotPanics ==
    (/\ pc = "done" /\ op \in {"Encode", "EncodeFirst", "EncodeLast"}
     /\ (Len(a) = 0 \/ \E i \in DOMAIN a : encodeToBytes(a[i]).err # NoError)) =>
        /\ ~ra.panic
        /\ ra.err # NoError

\* ------------------------------------------------------ the composite key

ErrMissingComponent == "partitionKey and rowKey cannot be nil"

NoLog == "nothing logged"

\* A PrimaryKey value; PrimaryKey{} holds two nil keys.
PrimaryKey(partitionKey, rowKey) == [PartitionKey |-> partitionKey, RowKey |-> rowKey]

\* NewPrimaryKey returns a PrimaryKey and nothing else: the result carries no
\* error value (err is NoError in every case), and the message goes to slog.
NewPrimaryKey(partitionKey, rowKey) ==
    IF partitionKey.nil \/ rowKey.nil
    THEN [pk |-> PrimaryKey(Nil, Nil), err |-> NoError, log |-> ErrMissingComponent]
    ELSE [pk |-> PrimaryKey(partitionKey, rowKey), err |-> NoError, log |-> NoLog]

\* PrimaryKey.Encode: partition, separator, row.
PrimaryKeyEncode(pk) ==
    MakeKey(pk.PartitionKey.bytes \o <<Seperator>> \o pk.RowKey.bytes)

\* The bytes of the sampled partition and row keys: 0x00, 'o', 0xFF.
KeyAlphabet == {0, 111, 255}

KeySamples ==
    {Nil} \cup {MakeKey(t) : t \in UNION {[1..n -> KeyAlphabet] : n \in 0..MaxTextLen}}

\* The texts "a", "b", "c" as parts, and the keys Encode builds from one or
\* two of them.
LetterParts == {Part("string", <<c>>) : c \in {97, 98, 99}}

BuiltKeys ==
    {Encode(l).key : l \in {<<p>> : p \in LetterParts}
                            \cup {<<p, q>> : p \in LetterParts, q \in LetterParts}}

BuiltPrimaryKeys == {NewPrimaryKey(p, r).pk : p \in BuiltKeys, r \in BuiltKeys}

\* Either a and b are the partition and row of one NewPrimaryKey call, or they
\* are two composite keys of built parts, both to be encoded.
InitComposite ==
    /\ pc = "call"
    /\ ra = NoResult
    /\ rb = NoResult
    /\ \/ /\ op = "NewPrimaryKey"
          /\ a \in KeySamples
          /\ b \in KeySamples
       \/ /\ op = "PrimaryKey.Encode"
          /\ a \in BuiltPrimaryKeys
          /\ b \in BuiltPrimaryKeys

CallNewPrimaryKey ==
    /\ pc = "call" /\ op = "NewPrimaryKey"
    /\ ra' = NewPrimaryKey(a, b)
    /\ pc' = "built"
    /\ UNCHANGED <<op, a, b, rb>>

CallPrimaryKeyEncode ==
    /\ pc = "built" /\ op = "NewPrimaryKey"
    /\ rb' = PrimaryKeyEncode(ra.pk)
    /\ pc' = "done"
    /\ UNCHANGED <<op, a, b, ra>>

CallEncodeBoth ==
    /\ pc = "call" /\ op = "PrimaryKey.Encode"
    /\ ra' = PrimaryKeyEncode(a) /\ rb' = PrimaryKeyEncode(b)
    /\ pc' = "done"
    /\ UNCHANGED <<op, a, b>>

NextComposite ==
    \/ CallNewPrimaryKey
    \/ CallPrimaryKeyEncode
    \/ CallEncodeBoth

SpecComposite == InitComposite /\ [][NextComposite]_vars

\* C9: NewPrimaryKey fails with a Missing-Component error reported to the caller
\* whenever the partition key or the row key is nil, and succeeds with both
\* components stored unchanged whenever both are non-nil.
C9_MissingComponentReported ==
    (pc # "call" /\ op = "NewPrimaryKey") =>
        /\ (a.nil \/ b.nil) => ra.err = ErrMissingComponent
        /\ (~a.nil /\ ~b.nil) => (ra.err = NoError /\ ra.pk = PrimaryKey(a, b))

\* -------------------------------------------------- the range boundaries

\* NewRangeKey: the three keys, unchecked.
NewRangeKey(partition, lower, upper) ==
    [PartitionKey |-> partition, StartRowKey |-> lower, EndRowKey |-> upper]

\* A ternary that returns the wrong branch.
ternary_Swapped(cond, x, y) == IF cond THEN y ELSE x

ternary(cond, x, y) == IF cond THEN x ELSE y

\* A row test that takes only the nil key for a missing row.
RowMissing_NilOnly(rowKey) == rowKey.nil

\* encodeBoundary's test for a row that contributes no bytes: len(rowKey) == 0
\* (and its complement len(rowKey) > 0 where the size is computed).
RowMissing(rowKey) == Len(rowKey.bytes) = 0

\* make(LexKey, size): size zero bytes.
MakeZeroed(size) == [i \in 1..size |-> 0]

\* Go's copy(dst[off:], src): as many bytes of src as fit.
Copy(dst, off, src) ==
    [i \in 1..Len(dst) |-> IF i > off /\ i - off <= Len(src) THEN src[i - off] ELSE dst[i]]

encodeBoundary(partitionKey, rowKey, isUpper, withPartitionKey) ==
    LET size0 == IF withPartitionKey THEN Len(partitionKey.bytes) ELSE 0
        size == IF ~RowMissing(rowKey)
                THEN size0 + 1 + Len(rowKey.bytes) + (IF isUpper THEN 1 ELSE 0)
                ELSE size0 + 1
        result0 == MakeZeroed(size)
        result1 == IF withPartitionKey THEN Copy(result0, 0, partitionKey.bytes) ELSE result0
        n == IF withPartitionKey THEN Len(partitionKey.bytes) ELSE 0
    IN  IF RowMissing(rowKey)
        THEN MakeKey([result1 EXCEPT ![n + 1] = ternary(isUpper, EndMarker, Seperator)])
        ELSE LET result2 == [result1 EXCEPT ![n + 1] = Seperator]
                 result3 == Copy(result2, n + 1, rowKey.bytes)
             IN  MakeKey(IF isUpper THEN [result3 EXCEPT ![Len(result3)] = EndMarker]
                         ELSE result3)

\* RangeKey.Encode with the two isUpper flags exchanged.
RangeKeyEncode_SwappedFlags(rk, withPartitionKey) ==
    [lower |-> encodeBoundary(rk.PartitionKey, rk.StartRowKey, TRUE, withPartitionKey),
     upper |-> encodeBoundary(rk.PartitionKey, rk.EndRowKey, FALSE, withPartitionKey)]

\* RangeKey.Encode
RangeKeyEncode(rk, withPartitionKey) ==
    [lower |-> encodeBoundary(rk.PartitionKey, rk.StartRowKey, FALSE, withPartitionKey),
     upper |-> encodeBoundary(rk.PartitionKey, rk.EndRowKey, TRUE, withPartitionKey)]

\* The bytes of the sampled rows: 'o' and 'p'.
RowAlphabet == {111, 112}

PlainRows == UNION {[1..n -> RowAlphabet] : n \in 0..MaxTextLen}

\* The start and end rows of the sampled ranges: nil, empty, plain, and one row
\* of each reserved byte.
RangeRowSamples ==
    {Nil} \cup {MakeKey(t) : t \in PlainRows \cup {<<0>>, <<255>>}}

\* The partitions of the sampled ranges: "o", "oo", "p" and "o\x00".
RangePartitionSamples ==
    {MakeKey(<<111>>), MakeKey(<<111, 111>>), MakeKey(<<112>>), MakeKey(<<111, 0>>)}

\* The stored composite keys a scan meets: partitions "o", "oo", "p".
StoredPartitionSamples == {MakeKey(<<111>>), MakeKey(<<111, 111>>), MakeKey(<<112>>)}

StoredRowSamples == {MakeKey(t) : t \in PlainRows \cup {<<0>>, <<255>>}}

\* a is the range and the flag of RangeKey.Encode, b a stored composite key;
\* ra becomes the bounds and rb the stored key's bytes.
InitRange ==
    /\ pc = "call"
    /\ op = "RangeKey.Encode"
    /\ a \in {[rk |-> NewRangeKey(p, s, e), withPartitionKey |-> w] :
                p \in RangePartitionSamples, s \in RangeRowSamples,
                e \in RangeRowSamples, w \in BOOLEAN}
    /\ b \in {PrimaryKey(p, r) : p \in StoredPartitionSamples, r \in StoredRowSamples}
    /\ ra = NoResult
    /\ rb = NoResult

CallRangeKeyEncode ==
    /\ pc = "call" /\ op = "RangeKey.Encode"
    /\ ra' = RangeKeyEncode(a.rk, a.withPartitionKey)
    /\ pc' = "bounds"
    /\ UNCHANGED <<op, a, b, rb>>

CallStoredKeyEncode ==
    /\ pc = "bounds" /\ op = "RangeKey.Encode"
    /\ rb' = PrimaryKeyEncode(b)
    /\ pc' = "done"
    /\ UNCHANGED <<op, a, b, ra>>

NextRange ==
    \/ CallRangeKeyEncode
    \/ CallStoredKeyEncode

SpecRange == InitRange /\ [][NextRange]_vars

\* ---------------------------------------------- claims about the boundaries

\* A row that holds at least one byte.
Present(key) == Len(key.bytes) > 0

RangeEncoded == op = "RangeKey.Encode" /\ pc \in {"bounds", "done"}

\* The stored key lies in the half-open interval [lower, upper).
InRange == Compare(ra.lower.bytes, rb.bytes) <= 0 /\ Compare(rb.bytes, ra.upper.bytes) = -1

C12_BoundsBeginWithRow ==
    (RangeEncoded /\ ~a.withPartitionKey
        /\ Present(a.rk.StartRowKey) /\ Present(a.rk.EndRowKey)) =>
        /\ ra.lower.bytes[1] = a.rk.StartRowKey.bytes[1]
        /\ ra.upper.bytes[1] = a.rk.EndRowKey.bytes[1]
        /\ IsPrefix(a.rk.StartRowKey.bytes, ra.lower.bytes)
        /\ IsPrefix(a.rk.EndRowKey.bytes, ra.upper.bytes)

\* No byte of the key is the separator or the end marker.
FreeOfReserved(key) == \A i \in DOMAIN key.bytes : key.bytes[i] \notin {Seperator, EndMarker}

RowLessEq(r, s) == Compare(r.bytes, s.bytes) <= 0

\* The case of C13: a range with both rows present and start <= end, encoded
\* with its partition, and a stored key whose parts hold no reserved byte.
ScanCase ==
    /\ op = "RangeKey.Encode" /\ pc = "done" /\ a.withPartitionKey
    /\ Present(a.rk.StartRowKey) /\ Present(a.rk.EndRowKey)
    /\ RowLessEq(a.rk.StartRowKey, a.rk.EndRowKey)
    /\ FreeOfReserved(b.PartitionKey) /\ FreeOfReserved(b.RowKey)

\* C13: for present rows start <= end, a stored key PrimaryKey(p', r).Encode()
\* with p' and r free of 0x00 and 0xFF lies in [lower, upper) exactly when
\* p' = p and start <= r <= end; no row greater than end is included.
C13_ScanExact ==
    ScanCase =>
        (InRange <=> /\ b.PartitionKey = a.rk.PartitionKey
                     /\ RowLessEq(a.rk.StartRowKey, b.RowKey)
                     /\ RowLessEq(b.RowKey, a.rk.EndRowKey))

\* C14: with both rows absent and the partition included, the bounds contain
\* every stored key of partition p and no stored key of another partition p',
\* partitions free of 0x00 and 0xFF, p' having p as a proper prefix included.
C14_OpenRangeTight ==
    (/\ op = "RangeKey.Encode" /\ pc = "done" /\ a.withPartitionKey
     /\ a.rk.StartRowKey.nil /\ a.rk.EndRowKey.nil
     /\ FreeOfReserved(a.rk.PartitionKey) /\ FreeOfReserved(b.PartitionKey)) =>
        /\ b.PartitionKey = a.rk.PartitionKey => InRange
        /\ b.PartitionKey # a.rk.PartitionKey => ~InRange

\* C18: the bounds are well ordered: for every partition, either flag value
\* and every start/end pair in which a row is absent or start <= end, the
\* lower bound is strictly below the upper bound.
C18_BoundsWellOrdered ==
    (RangeEncoded /\ \/ a.rk.StartRowKey.nil
                     \/ a.rk.EndRowKey.nil
                     \/ RowLessEq(a.rk.StartRowKey, a.rk.EndRowKey)) =>
        BytesLess(ra.lower.bytes, ra.upper.bytes)

\* A range whose start and end are the same present row has been encoded.
C18_Witness ==
    /\ RangeEncoded
    /\ Present(a.rk.StartRowKey) /\ a.rk.StartRowKey = a.rk.EndRowKey
    /\ BytesLess(ra.lower.bytes, ra.upper.bytes)

\* The row as RangeKey.Encode is claimed to see it: an empty row as a nil one.
EmptyAsNil(key) == IF Len(key.bytes) = 0 THEN Nil ELSE key

\* C20: an empty, non-nil row bound is not told from an absent one: for every
\* partition and flag value the bounds are the same as with the row nil, and
\* an empty end row gives partition ++ [0xFF], not partition ++ [0x00, 0xFF].
C20_EmptyRowAsAbsent ==
    RangeEncoded =>
        /\ ra = RangeKeyEncode(NewRangeKey(a.rk.PartitionKey, EmptyAsNil(a.rk.StartRowKey),
                                           EmptyAsNil(a.rk.EndRowKey)),
                               a.withPartitionKey)
        /\ (~a.rk.EndRowKey.nil /\ Len(a.rk.EndRowKey.bytes) = 0) =>
            ra.upper.bytes =
                (IF a.withPartitionKey THEN a.rk.PartitionKey.bytes ELSE <<>>) \o <<255>>

\* A range with an empty, non-nil end row has been encoded with its partition.
C20_Witness ==
    /\ RangeEncoded /\ a.withPartitionKey
    /\ ~a.rk.EndRowKey.nil /\ Len(a.rk.EndRowKey.bytes) = 0
    /\ ~a.rk.StartRowKey.nil /\ Len(a.rk.StartRowKey.bytes) = 0
    /\ ra.upper.bytes = a.rk.PartitionKey.bytes \o <<255>>
    /\ ra.lower.bytes = a.rk.PartitionKey.bytes \o <<0>>

\* ------------------------------------------- claims about the reserved bytes

\* The kinds of scalar values: the supported kinds but text, raw bytes and nil.
ScalarKinds == SupportedKinds \ {"string", "bytes", "nil"}

IsOneScalar(parts) == Len(parts) = 1 /\ parts[1].kind \in ScalarKinds

\* C15: the end marker sorts after every produced encoding: [0xFF] is byte-wise
\* strictly greater than the encoding of every supported scalar value and than
\* [0x00], so k ++ [0xFF] > k ++ enc(v) for a prefix k.
C15_EndMarkerAboveEncodings ==
    (op = "Encode" /\ pc = "done") =>
        /\ BytesLess(<<Seperator>>, <<EndMarker>>)
        /\ \A x \in {<<a, ra>>, <<b, rb>>} :
            (IsOneScalar(x[1]) /\ x[2].err = NoError /\ ~x[2].panic) =>
                /\ BytesLess(x[2].key.bytes, <<EndMarker>>)
                /\ \A k \in {<<>>, <<111>>} :
                    BytesLess(k \o x[2].key.bytes, k \o <<EndMarker>>)

\* C16: the composite encoding is unambiguous: two different pairs of built,
\* non-absent partition and row keys never encode to the same composite key.
C16_CompositeUnambiguous ==
    (op = "PrimaryKey.Encode" /\ pc = "done"
        /\ ~a.PartitionKey.nil /\ ~a.RowKey.nil
        /\ ~b.PartitionKey.nil /\ ~b.RowKey.nil
        /\ a # b) => ra # rb

\* a is a prefix P and b a longer key P, Q; both encode without a panic.
BracketCase(name) ==
    /\ op = name /\ pc = "done"
    /\ Len(a) >= 1 /\ Len(b) > Len(a) /\ SubSeq(b, 1, Len(a)) = a
    /\ ~ra.panic /\ ~Encode(b).panic

C19_SuccessGivesNonNilKey ==
    (op = "NewLexKey" /\ pc = "done") =>
        \A x \in {<<a, ra>>, <<b, rb>>} :
            (Len(x[1]) >= 1 /\ AllSupported(x[1]) /\ x[2].err = NoError) =>
                /\ ~x[2].key.nil
                /\ NewPrimaryKey(x[2].key, x[2].key).log = NoLog

\* ------------------------------------------------------ the whole library

Init == InitScalar \/ InitKey \/ InitComposite \/ InitRange

Next == NextScalar \/ NextKey \/ NextComposite \/ NextRange

Spec == Init /\ [][Next]_vars

=============================================================================
